---- MODULE Spec2Model ----
(***************************************************************************)
(* Model of the DBF -> MongoDB import script scripts/dbfToMongo.js.        *)
(*                                                                         *)
(* One run of the script is a single flow of control (every I/O call is    *)
(* awaited), so the run is one process whose position is pc.  Every call   *)
(* into the environment (file system, dbffile, mongoose, dynamic import)   *)
(* may succeed or throw; the environment is chosen step by step, with at   *)
(* most MaxEvents departures from the nominal case in a run.  What the     *)
(* archives and the collections hold before the run is fixed per pair      *)
(* (ArchiveLength, OldContent).                                            *)
(* A thrown exception that no inner try/catch handles reaches the          *)
(* try/catch/finally of importDbfsData (pc = "catch").                     *)
(***************************************************************************)
EXTENDS Integers, Sequences, FiniteSets, TLC

(***************************************************************************)
(* Bounds of the model.                                                    *)
(***************************************************************************)
\* how many of the 14 folders of the list are modelled (a prefix of it)
MaxFolders == 2
\* how many of the 7 model types are modelled (a prefix of the fixed order)
MaxTypes == 2
\* the longest archive (number of records readRecords returns)
MaxRecords == 2
\* how many times per run the environment departs from the nominal case
\* (an absent folder, model or archive, a call that throws)
MaxEvents == 2

(***************************************************************************)
(* Program data.                                                           *)
(***************************************************************************)
\* const folders = [...], in list order
allFolders ==
  << "AVB", "AW", "DQ", "FMB", "HD", "KONE", "KOUMAC", "LD",
     "LE_BROUSSARD", "MEARE", "PAITA_BRICOLAGE", "QC", "SITEC", "VKP" >>

\* faulty variant: the keys of the models object in another insertion order
allModelTypesSwapped ==
  << "classnum", "article", "fournisseur", "client", "facture",
     "factureDetail", "tier" >>

\* the keys of the models object, in insertion order (Object.entries order)
allModelTypes ==
  << "article", "classnum", "fournisseur", "client", "facture",
     "factureDetail", "tier" >>

Min(a, b) == IF a < b THEN a ELSE b

folders == SubSeq(allFolders, 1, Min(MaxFolders, Len(allFolders)))

modelTypes == SubSeq(allModelTypes, 1, Min(MaxTypes, Len(allModelTypes)))

Range(s) == { s[i] : i \in 1..Len(s) }

Pairs == Range(folders) \X Range(modelTypes)

(***************************************************************************)
(* Records.  A record is the sequence of its [key, value] entries, as      *)
(* Object.entries yields them; a value carries its JavaScript type.        *)
(***************************************************************************)
Num(v) == [typ |-> "number", val |-> v]
Str(v) == [typ |-> "string", val |-> v]
NaN == Num("NaN")
Null == [typ |-> "object", val |-> "null"]

Entry(k, v) == [key |-> k, value |-> v]

\* the records an archive can hold, in archive order (dbffile gives one
\* JavaScript object per record, so that no record has a key twice)
archiveRecords ==
  << << Entry("CODE", Num("1")), Entry("PRIX", NaN), Entry("NOM", Str("NaN")) >>,
     << Entry("CODE", Num("2")), Entry("PRIX", Num("10")), Entry("NOM", Null) >>,
     << Entry("CODE", Num("3")), Entry("PRIX", NaN), Entry("REMISE", Num("7")) >>,
     << Entry("CODE", Num("4")), Entry("NOM", Str("")) >> >>

Keys(rec) == { rec[i].key : i \in 1..Len(rec) }

\* faulty variant: NaN is passed through
sanitizeValueKeepsNaN(value) == value

\* typeof value === "number" && isNaN(value) ? 0 : value
sanitizeValue(value) ==
  IF value.typ = "number" /\ value.val = "NaN" THEN Num("0") ELSE value

\* sanitizeRecord: first occurrence of a key wins, NaN numbers become 0
RECURSIVE sanitizeFrom(_, _, _)
sanitizeFrom(record, i, sanitized) ==
  IF i > Len(record) THEN sanitized
  ELSE sanitizeFrom(record, i + 1,
         IF record[i].key \in Keys(sanitized) THEN sanitized
         ELSE Append(sanitized, Entry(record[i].key, sanitizeValue(record[i].value))))

\* faulty variant: the loop starts at the second entry
sanitizeRecordSkipsFirst(record) == sanitizeFrom(record, 2, << >>)

sanitizeRecord(record) == sanitizeFrom(record, 1, << >>)

\* an archive of n records
Archive(n) == SubSeq(archiveRecords, 1, Min(n, Len(archiveRecords)))

FullLength == Min(MaxRecords, Len(archiveRecords))

\* a document left in a collection by an earlier run and in no archive
StaleDocument == << Entry("CODE", Num("99")), Entry("PRIX", Num("5")) >>

Index(s, x) == CHOOSE i \in 1..Len(s) : s[i] = x

\* how far a (folder, model type) is from the first one: the positions of its
\* folder and of its model type in their lists, added, from 0
Position(p) == Index(folders, p[1]) + Index(modelTypes, p[2]) - 2

\* the file system the run finds: the archive of the first pair holds FullLength
\* records, the ones after it one record less each, down to an empty archive,
\* and then FullLength again
ArchiveLength(p) == (FullLength * (Position(p) + 1)) % (FullLength + 1)

\* what the collection of a (folder, model type) holds before the run: empty
\* for some, for the others a stale document and a copy of an archive record
OldContent(p) ==
  IF Position(p) % 2 = 0
  THEN << StaleDocument, sanitizeRecord(archiveRecords[1]) >>
  ELSE << >>

(***************************************************************************)
(* State.                                                                  *)
(***************************************************************************)
VARIABLES
  pc,             \* position of the run in the script
  outcome,        \* how the run ended: "running" until the process exits
  exitCode,       \* the process exit code, -1 while the process runs
  connection,     \* "none", "connected" or "failed": mongoose.connect
  fi,             \* index in folders of the folder being treated
  ti,             \* index in modelTypes of the model type being treated
  models,         \* the models object of the current folder: TRUE = a model, FALSE = null
  dest,           \* the collection of every (folder, model type)
  records,        \* what dbf.readRecords() returned for the current file
  ri,             \* index in records of the next record of the for loop
  recordCount,    \* dbf.recordCount of the archive opened last
  insertedCount,  \* let insertedCount of processFile
  errorLog,       \* the lines of ./error.log appended by this run
  ops,            \* history: the calls issued to the environment, in order
  report,         \* history: what the run did for every (folder, model type)
  events,         \* number of departures from the nominal case so far
  bar,            \* the progress bar of processFile: its total, value, and whether started
  shown,          \* history: the values the progress bar has drawn on the terminal
  tty,            \* whether the terminal shows the progress bar (cli-progress draws
                  \* nothing when the output is not a terminal)
  san,            \* the sanitizer taken alone: its input and its results
  pass,           \* the load taken alone: 1 for the first load of the pair, 2 for the second
  firstDest,      \* the load taken alone: the collections after the first load
  batchSize       \* the chunked loader: const batchSize

\* the variables that only the sanitizer, the reloaded pair and the chunked
\* loader use
sideVars == << tty, san, pass, firstDest, batchSize >>

vars == << pc, outcome, exitCode, connection, fi, ti, models, dest, records,
           ri, recordCount, insertedCount, errorLog, ops, report, events,
           bar, shown, tty, san, pass, firstDest, batchSize >>

\* the choices left to a call that may fail, k events being used by the step already
Fallible(k) == IF events + k < MaxEvents THEN BOOLEAN ELSE {TRUE}

Cost(ok) == IF ok THEN 0 ELSE 1

\* a call issued to the environment: its kind, the folder and model type it is
\* for, for an insert the index of the record in the archive (0 otherwise), and
\* its result: "ok" or "throw" for a call ("undefined" for an import without a
\* default export), "yes" or "no" for fs.existsSync
Op(kind, f, t, i, result) == << kind, f, t, i, result >>

Result(ok) == IF ok THEN "ok" ELSE "throw"

\* a line of error.log: which message, and the folder and the model type its
\* text names ("" when the text does not name one); the timestamp is left out
Line(tag, f, t) == << tag, f, t >>

Pending == [st |-> "pending", source |-> 0, inserted |-> 0]

Outcome(st, source, inserted) == [st |-> st, source |-> source, inserted |-> inserted]

folder == folders[fi]

fileName == modelTypes[ti]

pair == << folder, fileName >>

\* process.exit() without an argument: the exit code is process.exitCode, 0
FinallyExitCode == 0

\* process.exit(1) when MONGO_URI is not defined
MissingUriExitCode == 1

\* faulty variant: the connection failure exits like the finally block
connectExitsLikeFinally == FinallyExitCode

\* process.exit(1) in the catch of connectDB
ConnectFailExitCode == 1

\* no progress bar has been started
IdleBar == [total |-> 0, value |-> 0, active |-> FALSE]

\* progressBar.start(total, 0)
barStart(total) == [total |-> total, value |-> 0, active |-> TRUE]

\* faulty variant: the bar is given the number of records submitted
barUpdateSubmitted(b, value) == [b EXCEPT !.value = ri]

\* progressBar.update(value)
barUpdate(b, value) == [b EXCEPT !.value = value]

\* progressBar.stop()
barStop(b) == [b EXCEPT !.active = FALSE]

\* the bar is drawn only on a terminal
render(s, value) == IF tty THEN Append(s, value) ELSE s

\* no record has been given to the sanitizer
NoSan == [raw |-> << >>, once |-> << >>, entries |-> << >>, twice |-> << >>]

\* the state when the script starts, but for the terminal
InitRun ==
  /\ pc = "start"
  /\ outcome = "running"
  /\ exitCode = -1
  /\ connection = "none"
  /\ fi = 1
  /\ ti = 1
  /\ models = << >>
  /\ dest = [p \in Pairs |-> OldContent(p)]
  /\ records = << >>
  /\ ri = 1
  /\ recordCount = 0
  /\ insertedCount = 0
  /\ errorLog = << >>
  /\ ops = << >>
  /\ report = [p \in Pairs |-> Pending]
  /\ events = 0
  /\ bar = IdleBar
  /\ shown = << >>
  /\ san = NoSan
  /\ pass = 1
  /\ firstDest = << >>
  /\ batchSize = 0

\* the script is run in a terminal
Init == InitRun /\ tty = TRUE

(***************************************************************************)
(* logError: fs.appendFileSync(ERROR_LOG_FILE, ...) with no try/catch      *)
(* around it.  When the write succeeds the line is appended; when it       *)
(* fails the exception leaves logError and its caller.                     *)
(***************************************************************************)
logError(line, written) ==
  IF written THEN errorLog' = Append(errorLog, line) ELSE UNCHANGED errorLog

\* the call of fs.appendFileSync made by logError(line)
LogOp(line, written) == Op("log", line[2], line[3], 0, Result(written))

(***************************************************************************)
(* const mongoUri = ...; if (!mongoUri) process.exit(1)                    *)
(***************************************************************************)
CheckMongoUri ==
  /\ pc = "start"
  /\ \E defined \in Fallible(0) :
       /\ events' = events + Cost(defined)
       /\ IF defined
          THEN /\ pc' = "connect"
               /\ UNCHANGED << outcome, exitCode >>
          ELSE /\ pc' = "exited"
               /\ outcome' = "noUri"
               /\ exitCode' = MissingUriExitCode
  /\ UNCHANGED << connection, fi, ti, models, dest, records, ri,
                  recordCount, insertedCount, errorLog, ops, report >>
  /\ UNCHANGED << bar, shown >>
  /\ UNCHANGED sideVars

(***************************************************************************)
(* connectDB, awaited first in the try of importDbfsData.                  *)
(***************************************************************************)
\* faulty variant: the failure is only printed and the run goes on
connectDBNoExit(ok) ==
  /\ events' = events + Cost(ok)
  /\ connection' = IF ok THEN "connected" ELSE "failed"
  /\ pc' = "folder"
  /\ UNCHANGED << outcome, exitCode >>

connectDB(ok) ==
  /\ events' = events + Cost(ok)
  /\ IF ok
     THEN /\ connection' = "connected"
          /\ pc' = "folder"
          /\ UNCHANGED << outcome, exitCode >>
     ELSE /\ connection' = "failed"
          /\ pc' = "exited"
          /\ outcome' = "connectFailed"
          /\ exitCode' = ConnectFailExitCode

Connect ==
  /\ pc = "connect"
  /\ \E ok \in Fallible(0) : connectDB(ok)
  /\ UNCHANGED << fi, ti, models, dest, records, ri, recordCount,
                  insertedCount, errorLog, ops, report >>
  /\ UNCHANGED << bar, shown >>
  /\ UNCHANGED sideVars

(***************************************************************************)
(* for (const folder of folders): the head of the loop.                    *)
(***************************************************************************)
\* if (!fs.existsSync(folderPath)) { ...; logError(errorMsg); continue; }
FolderMissing ==
  /\ pc = "folder"
  /\ fi <= Len(folders)
  /\ events < MaxEvents
  /\ \E written \in Fallible(1) :
       LET line == Line("dossier", folder, "") IN
       /\ events' = events + 1 + Cost(written)
       /\ logError(line, written)
       /\ ops' = ops \o << Op("existsFolder", folder, "", 0, "no"),
                           LogOp(line, written) >>
       /\ IF written
          THEN /\ fi' = fi + 1
               /\ pc' = "folder"
               /\ report' = [p \in Pairs |->
                               IF p[1] = folder THEN Outcome("noFolder", 0, 0)
                               ELSE report[p]]
          ELSE /\ pc' = "catch"
               /\ UNCHANGED << fi, report >>
  /\ UNCHANGED << outcome, exitCode, connection, ti, models, dest, records,
                  ri, recordCount, insertedCount >>
  /\ UNCHANGED << bar, shown >>
  /\ UNCHANGED sideVars

\* the folder exists: go on to const models = { ... }
FolderPresent ==
  /\ pc = "folder"
  /\ fi <= Len(folders)
  /\ pc' = "loadModel"
  /\ ti' = 1
  /\ models' = << >>
  /\ ops' = Append(ops, Op("existsFolder", folder, "", 0, "yes"))
  /\ UNCHANGED << outcome, exitCode, connection, fi, dest, records, ri,
                  recordCount, insertedCount, errorLog, report, events >>
  /\ UNCHANGED << bar, shown >>
  /\ UNCHANGED sideVars

(***************************************************************************)
(* loadModel(folder, modelType), awaited once per key of the models        *)
(* object, in the order of the keys, before any file is processed.         *)
(* The import gives the default export of the module (a model, or          *)
(* undefined when the module has none) or throws; the catch of loadModel   *)
(* calls logError before it returns null.                                  *)
(***************************************************************************)
\* the value is stored under the key; after the last key the inner loop starts
StoreModel(model) ==
  /\ models' = Append(models, model)
  /\ IF ti = Len(modelTypes)
     THEN pc' = "pair" /\ ti' = 1
     ELSE pc' = "loadModel" /\ ti' = ti + 1

LoadModel ==
  /\ pc = "loadModel"
  /\ \/ /\ StoreModel(TRUE)
        /\ ops' = Append(ops, Op("resolve", folder, fileName, 0, "ok"))
        /\ UNCHANGED << errorLog, events >>
     \/ /\ events < MaxEvents
        /\ events' = events + 1
        /\ StoreModel(FALSE)
        /\ ops' = Append(ops, Op("resolve", folder, fileName, 0, "undefined"))
        /\ UNCHANGED errorLog
     \/ /\ events < MaxEvents
        /\ \E written \in Fallible(1) :
             LET line == Line("modele", folder, fileName) IN
             /\ events' = events + 1 + Cost(written)
             /\ logError(line, written)
             /\ ops' = ops \o << Op("resolve", folder, fileName, 0, "throw"),
                                 LogOp(line, written) >>
             /\ IF written
                THEN StoreModel(FALSE)
                ELSE pc' = "catch" /\ UNCHANGED << models, ti >>
  /\ UNCHANGED << outcome, exitCode, connection, fi, dest, records, ri,
                  recordCount, insertedCount, report >>
  /\ UNCHANGED << bar, shown >>
  /\ UNCHANGED sideVars

(***************************************************************************)
(* for (const [fileName, model] of Object.entries(models))                 *)
(***************************************************************************)
\* the inner loop is over: next folder
EndFolder ==
  /\ pc = "pair"
  /\ ti > Len(modelTypes)
  /\ fi' = fi + 1
  /\ ti' = 1
  /\ pc' = "folder"
  /\ UNCHANGED << outcome, exitCode, connection, models, dest, records, ri,
                  recordCount, insertedCount, errorLog, ops, report, events >>
  /\ UNCHANGED << bar, shown >>
  /\ UNCHANGED sideVars

\* if (model) is false: nothing is done for this key
SkipNullModel ==
  /\ pc = "pair"
  /\ ti <= Len(modelTypes)
  /\ ~models[ti]
  /\ report' = [report EXCEPT ![pair] = Outcome("noModel", 0, 0)]
  /\ ti' = ti + 1
  /\ UNCHANGED << pc, outcome, exitCode, connection, fi, models, dest,
                  records, ri, recordCount, insertedCount, errorLog, ops, events >>
  /\ UNCHANGED << bar, shown >>
  /\ UNCHANGED sideVars

(***************************************************************************)
(* processFile(filePath, model, fileName, folder)                          *)
(***************************************************************************)
\* if (!fs.existsSync(filePath)) { ...; logError(errorMsg); return; }
ArchiveMissing ==
  /\ pc = "pair"
  /\ ti <= Len(modelTypes)
  /\ models[ti]
  /\ events < MaxEvents
  /\ \E written \in Fallible(1) :
       LET line == Line("fichier", folder, fileName) IN
       /\ events' = events + 1 + Cost(written)
       /\ logError(line, written)
       /\ ops' = ops \o << Op("exists", folder, fileName, 0, "no"),
                           LogOp(line, written) >>
       /\ IF written
          THEN /\ ti' = ti + 1
               /\ pc' = "pair"
               /\ report' = [report EXCEPT ![pair] = Outcome("noFile", 0, 0)]
          ELSE /\ pc' = "catch"
               /\ UNCHANGED << ti, report >>
  /\ UNCHANGED << outcome, exitCode, connection, fi, models, dest, records,
                  ri, recordCount, insertedCount >>
  /\ UNCHANGED << bar, shown >>
  /\ UNCHANGED sideVars

\* faulty variant: the collection is emptied before the archive is opened
ArchiveExistsThenDelete ==
  /\ pc = "pair"
  /\ ti <= Len(modelTypes)
  /\ models[ti]
  /\ pc' = "delete"
  /\ ops' = Append(ops, Op("exists", folder, fileName, 0, "yes"))
  /\ UNCHANGED << outcome, exitCode, connection, fi, ti, models, dest,
                  records, ri, recordCount, insertedCount, errorLog, report,
                  events >>
  /\ UNCHANGED << bar, shown >>
  /\ UNCHANGED sideVars

\* the archive exists: go on to DBFFile.open
ArchiveExists ==
  /\ pc = "pair"
  /\ ti <= Len(modelTypes)
  /\ models[ti]
  /\ pc' = "open"
  /\ ops' = Append(ops, Op("exists", folder, fileName, 0, "yes"))
  /\ UNCHANGED << outcome, exitCode, connection, fi, ti, models, dest,
                  records, ri, recordCount, insertedCount, errorLog, report,
                  events >>
  /\ UNCHANGED << bar, shown >>
  /\ UNCHANGED sideVars

\* const dbf = await DBFFile.open(filePath); dbf.recordCount is read
OpenArchive ==
  /\ pc = "open"
  /\ \E ok \in Fallible(0) :
       /\ events' = events + Cost(ok)
       /\ IF ok
          THEN recordCount' = ArchiveLength(pair) /\ pc' = "delete"
          ELSE pc' = "catch" /\ UNCHANGED recordCount
       /\ ops' = Append(ops, Op("open", folder, fileName, 0, Result(ok)))
  /\ UNCHANGED << outcome, exitCode, connection, fi, ti, models, dest,
                  records, ri, insertedCount, errorLog, report >>
  /\ UNCHANGED << bar, shown >>
  /\ UNCHANGED sideVars

\* faulty variant: the old documents are kept
deleteManyNothing(d, p) == d

\* faulty variant: every collection is emptied
deleteManyEverywhere(d, p) == [q \in DOMAIN d |-> << >>]

\* model.deleteMany() with no filter: the collection is emptied
deleteMany(d, p) == [d EXCEPT ![p] = << >>]

\* await model.deleteMany(); then createProgressBar and progressBar.start
DeleteMany ==
  /\ pc = "delete"
  /\ \E ok \in Fallible(0) :
       /\ events' = events + Cost(ok)
       /\ IF ok
          THEN /\ dest' = deleteMany(dest, pair)
               /\ bar' = barStart(recordCount)
               /\ shown' = render(shown, 0)
               /\ pc' = "read"
          ELSE pc' = "catch" /\ UNCHANGED << dest, bar, shown >>
       /\ ops' = Append(ops, Op("delete", folder, fileName, 0, Result(ok)))
  /\ UNCHANGED << outcome, exitCode, connection, fi, ti, models, records, ri,
                  recordCount, insertedCount, errorLog, report >>
  /\ UNCHANGED sideVars

\* const records = await dbf.readRecords(); let insertedCount = 0
ReadRecords ==
  /\ pc = "read"
  /\ \E ok \in Fallible(0) :
       /\ events' = events + Cost(ok)
       /\ IF ok
          THEN /\ records' = Archive(recordCount)
               /\ ri' = 1
               /\ insertedCount' = 0
               /\ pc' = "insert"
          ELSE /\ pc' = "catch"
               /\ UNCHANGED << records, ri, insertedCount >>
       /\ ops' = Append(ops, Op("read", folder, fileName, 0, Result(ok)))
  /\ UNCHANGED << outcome, exitCode, connection, fi, ti, models, dest,
                  recordCount, errorLog, report >>
  /\ UNCHANGED << bar, shown >>
  /\ UNCHANGED sideVars

\* model.create(doc): the document is added to the collection
create(d, p, doc) == [d EXCEPT ![p] = Append(@, doc)]

\* faulty variant: the count is taken from what the bar has drawn
incrementFromShown(n) == Len(shown)

\* faulty variant: the record is counted twice
incrementTwice(n) == n + 2

\* insertedCount++
increment(n) == n + 1

\* one turn of for (const record of records): sanitize, create, and in the
\* catch of a failed create, logError
CreateRecord ==
  /\ pc = "insert"
  /\ ri <= Len(records)
  /\ \E ok \in Fallible(0) :
       IF ok
       THEN /\ dest' = create(dest, pair, sanitizeRecord(records[ri]))
            /\ insertedCount' = increment(insertedCount)
            /\ bar' = barUpdate(bar, insertedCount')
            /\ shown' = render(shown, insertedCount')
            /\ ri' = ri + 1
            /\ ops' = Append(ops, Op("insert", folder, fileName, ri, "ok"))
            /\ UNCHANGED << pc, errorLog, events >>
       ELSE \E written \in Fallible(1) :
              LET line == Line("insertion", "", fileName) IN
              /\ events' = events + 1 + Cost(written)
              /\ logError(line, written)
              /\ ops' = ops \o << Op("insert", folder, fileName, ri, "throw"),
                                  LogOp(line, written) >>
              /\ IF written
                 THEN ri' = ri + 1 /\ UNCHANGED pc
                 ELSE pc' = "catch" /\ UNCHANGED ri
              /\ UNCHANGED << dest, insertedCount, bar, shown >>
  /\ UNCHANGED << outcome, exitCode, connection, fi, ti, models, records,
                  recordCount, report >>
  /\ UNCHANGED sideVars

\* the loop is over: progressBar.stop(), the "Importation réussie" line, return
FinishFile ==
  /\ pc = "insert"
  /\ ri > Len(records)
  /\ report' = [report EXCEPT ![pair] = Outcome("loaded", recordCount, insertedCount)]
  /\ bar' = barStop(bar)
  /\ shown' = render(shown, bar.value)
  /\ ti' = ti + 1
  /\ pc' = "pair"
  /\ UNCHANGED << outcome, exitCode, connection, fi, models, dest, records,
                  ri, recordCount, insertedCount, errorLog, ops, events >>
  /\ UNCHANGED sideVars

(***************************************************************************)
(* The end of importDbfsData.                                              *)
(***************************************************************************)
\* the loop over the folders is over: "Importation complète", then finally
ImportComplete ==
  /\ pc = "folder"
  /\ fi > Len(folders)
  /\ outcome' = "completed"
  /\ exitCode' = FinallyExitCode
  /\ pc' = "exited"
  /\ UNCHANGED << connection, fi, ti, models, dest, records, ri, recordCount,
                  insertedCount, errorLog, ops, report, events >>
  /\ UNCHANGED << bar, shown >>
  /\ UNCHANGED sideVars

\* faulty variant: no process.exit() in the finally, so that the open
\* connection keeps the process alive
CatchCriticalNoExit ==
  /\ pc = "catch"
  /\ \E written \in Fallible(0) :
       LET line == Line("critique", "", "") IN
       /\ events' = events + Cost(written)
       /\ logError(line, written)
       /\ ops' = Append(ops, LogOp(line, written))
  /\ outcome' = "critical"
  /\ UNCHANGED exitCode
  /\ pc' = "idle"
  /\ UNCHANGED << connection, fi, ti, models, dest, records, ri, recordCount,
                  insertedCount, report >>
  /\ UNCHANGED << bar, shown >>
  /\ UNCHANGED sideVars

\* catch (error) { console.error(...); logError("Erreur critique ...") }
\* finally { process.exit() }: the process exits whether or not logError threw
CatchCritical ==
  /\ pc = "catch"
  /\ \E written \in Fallible(0) :
       LET line == Line("critique", "", "") IN
       /\ events' = events + Cost(written)
       /\ logError(line, written)
       /\ ops' = Append(ops, LogOp(line, written))
  /\ outcome' = "critical"
  /\ exitCode' = FinallyExitCode
  /\ pc' = "exited"
  /\ UNCHANGED << connection, fi, ti, models, dest, records, ri, recordCount,
                  insertedCount, report >>
  /\ UNCHANGED << bar, shown >>
  /\ UNCHANGED sideVars

Next ==
  \/ CheckMongoUri
  \/ Connect
  \/ FolderMissing
  \/ FolderPresent
  \/ LoadModel
  \/ EndFolder
  \/ SkipNullModel
  \/ ArchiveMissing
  \/ ArchiveExists
  \/ OpenArchive
  \/ DeleteMany
  \/ ReadRecords
  \/ CreateRecord
  \/ FinishFile
  \/ ImportComplete
  \/ CatchCritical

Spec == Init /\ [][Next]_vars

\* the script run either in a terminal, where the progress bar is drawn, or
\* with its output elsewhere, where cli-progress draws nothing
InitProgress == InitRun /\ tty \in BOOLEAN

SpecProgress == InitProgress /\ [][Next]_vars

\* the run when every call that the script awaits is answered, by a result or
\* by an exception: Node.js then runs the continuation of the await, so that
\* a step that can be taken is taken
FairSpec == Spec /\ WF_vars(Next)

(***************************************************************************)
(* The chunked loader: processFile of the variant that writes the records  *)
(* with insertMany, batchSize records at a time. It is taken alone, for    *)
(* one archive of the first (folder, model type), from the point where      *)
(* importDbfsData has called it and the archive exists.                     *)
(***************************************************************************)
MaxChunkRecords == 3
MaxBatch == 2

\* the (folder, model type) that the loader taken alone loads
loadedPair == << folders[1], modelTypes[1] >>

\* the position of the key in a list of entries, 0 when it has none
RECURSIVE KeyIndex(_, _, _)
KeyIndex(entries, key, i) ==
  IF i > Len(entries) THEN 0
  ELSE IF entries[i].key = key THEN i
  ELSE KeyIndex(entries, key, i + 1)

\* Object.fromEntries: a key met again keeps its place and takes the new value
RECURSIVE fromEntries(_, _, _)
fromEntries(entries, i, object) ==
  IF i > Len(entries) THEN object
  ELSE LET at == KeyIndex(object, entries[i].key, 1) IN
       fromEntries(entries, i + 1,
                   IF at = 0
                   THEN Append(object, entries[i])
                   ELSE [object EXCEPT ![at] = entries[i]])

\* sanitizeRecord of the chunked loader: every entry is mapped, then
\* Object.fromEntries builds the record
sanitizeRecordEntries(record) ==
  fromEntries([i \in 1..Len(record) |->
                 Entry(record[i].key, sanitizeValue(record[i].value))],
              1, << >>)

\* faulty variant: the element at index end is taken too
sliceInclusive(s, begin, end) == SubSeq(s, begin + 1, Min(end + 1, Len(s)))

\* Array.prototype.slice(begin, end), indices from 0, end excluded and clipped
slice(s, begin, end) == SubSeq(s, begin + 1, Min(end, Len(s)))

\* records.slice(i, i + batchSize).map(sanitizeRecord), i being ri - 1
batch ==
  LET part == slice(records, ri - 1, ri - 1 + batchSize) IN
  [k \in 1..Len(part) |-> sanitizeRecordEntries(part[k])]

\* the documents of docs at the positions of kept, in the order of docs
RECURSIVE Keep(_, _, _)
Keep(docs, kept, k) ==
  IF k > Len(docs) THEN << >>
  ELSE (IF k \in kept THEN << docs[k] >> ELSE << >>) \o Keep(docs, kept, k + 1)

\* model.insertMany(docs, { ordered: false }): the documents that the
\* collection accepts are added, whatever happens to the others
insertMany(d, p, docs, accepted) ==
  [d EXCEPT ![p] = @ \o Keep(docs, accepted, 1)]

\* history: the records of the batch that the collection has stored, by their
\* index in the archive
RECURSIVE Stored(_, _)
Stored(accepted, k) ==
  IF k > Len(batch) THEN << >>
  ELSE (IF k \in accepted
        THEN << Op("stored", folder, fileName, ri + k - 1, "ok") >>
        ELSE << >>) \o Stored(accepted, k + 1)

InitChunk ==
  /\ pc = "open"
  /\ outcome = "running"
  /\ exitCode = -1
  /\ connection = "connected"
  /\ fi = 1
  /\ ti = 1
  /\ models = [i \in 1..Len(modelTypes) |-> TRUE]
  /\ dest = [p \in Pairs |-> OldContent(p)]
  /\ records = << >>
  /\ ri = 1
  /\ recordCount = 0
  /\ insertedCount = 0
  /\ errorLog = << >>
  /\ ops = << Op("exists", folder, fileName, 0, "yes") >>
  /\ report = [p \in Pairs |-> Pending]
  /\ events = 0
  /\ bar = IdleBar
  /\ shown = << >>
  /\ tty = TRUE
  /\ san = NoSan
  /\ pass = 1
  /\ firstDest = << >>
  /\ batchSize \in 1..MaxBatch

\* const dbf = await DBFFile.open(filePath), for an archive of any length
ChunkOpen ==
  /\ pc = "open"
  /\ \/ /\ \E n \in 0..MaxChunkRecords : recordCount' = n
        /\ pc' = "delete"
        /\ ops' = Append(ops, Op("open", folder, fileName, 0, "ok"))
        /\ UNCHANGED events
     \/ /\ events < MaxEvents
        /\ events' = events + 1
        /\ pc' = "catch"
        /\ ops' = Append(ops, Op("open", folder, fileName, 0, "throw"))
        /\ UNCHANGED recordCount
  /\ UNCHANGED << outcome, exitCode, connection, fi, ti, models, dest,
                  records, ri, insertedCount, errorLog, report >>
  /\ UNCHANGED << bar, shown >>
  /\ UNCHANGED sideVars

\* one turn of for (let i = 0; i < records.length; i += batchSize): the batch
\* is written with insertMany. The collection accepts some of its documents;
\* when it refuses one, the call either returns the documents written (a
\* document dropped by validation) or throws after writing them (a write
\* error), and a call may throw having written nothing. Only a call that
\* returns is counted.
InsertChunk ==
  /\ pc = "insert"
  /\ ri <= Len(records)
  /\ \E accepted \in SUBSET (1..Len(batch)), thrown \in BOOLEAN :
       LET refused == Len(batch) - Cardinality(accepted) IN
       /\ events + refused <= MaxEvents
       /\ thrown => refused > 0
       /\ events' = events + refused
       /\ dest' = insertMany(dest, pair, batch, accepted)
       /\ insertedCount' = IF thrown THEN insertedCount
                           ELSE insertedCount + Cardinality(accepted)
       /\ ops' = Append(ops, Op("insertMany", folder, fileName, ri,
                                IF thrown THEN "throw"
                                ELSE IF refused > 0 THEN "partial" ELSE "ok"))
                 \o Stored(accepted, 1)
  /\ bar' = barUpdate(bar, insertedCount')
  /\ shown' = render(shown, insertedCount')
  /\ ri' = ri + batchSize
  /\ UNCHANGED << pc, outcome, exitCode, connection, fi, ti, models, records,
                  recordCount, errorLog, report >>
  /\ UNCHANGED sideVars

NextChunk ==
  \/ ChunkOpen
  \/ DeleteMany
  \/ ReadRecords
  \/ InsertChunk
  \/ FinishFile

SpecChunk == InitChunk /\ [][NextChunk]_vars

(***************************************************************************)
(* processFile called twice in a row for the same (folder, model type):    *)
(* the load of one pair taken alone, then the same load again on the same   *)
(* archive.                                                                 *)
(***************************************************************************)
\* what the collection may hold before the first load
PriorContents ==
  { << >>,
    << StaleDocument >>,
    << StaleDocument, sanitizeRecord(archiveRecords[1]) >>,
    << sanitizeRecord(archiveRecords[2]), sanitizeRecord(archiveRecords[1]) >> }

InitReload ==
  /\ pc = "pair"
  /\ outcome = "running"
  /\ exitCode = -1
  /\ connection = "connected"
  /\ fi \in 1..Len(folders)
  /\ ti \in 1..Len(modelTypes)
  /\ models = [i \in 1..Len(modelTypes) |-> i = ti]
  /\ \E prior \in PriorContents :
       dest = [p \in Pairs |-> IF p = pair THEN prior ELSE OldContent(p)]
  /\ records = << >>
  /\ ri = 1
  /\ recordCount = 0
  /\ insertedCount = 0
  /\ errorLog = << >>
  /\ ops = << >>
  /\ report = [p \in Pairs |-> Pending]
  /\ events = 0
  /\ bar = IdleBar
  /\ shown = << >>
  /\ tty = TRUE
  /\ san = NoSan
  /\ pass = 1
  /\ firstDest = << >>
  /\ batchSize = 0

\* the pair whose load has just ended
loaded == << folder, modelTypes[ti - 1] >>

\* the first load has ended: processFile is called again for the same pair
Reload ==
  /\ pc = "pair"
  /\ pass = 1
  /\ ti >= 2
  /\ models[ti - 1]
  /\ report[loaded].st = "loaded"
  /\ pass' = 2
  /\ firstDest' = dest
  /\ ti' = ti - 1
  /\ UNCHANGED << pc, outcome, exitCode, connection, fi, models, dest, records,
                  ri, recordCount, insertedCount, errorLog, ops, report,
                  events, bar, shown, tty, san, batchSize >>

NextReload ==
  \/ ArchiveExists
  \/ OpenArchive
  \/ DeleteMany
  \/ ReadRecords
  \/ CreateRecord
  \/ FinishFile
  \/ Reload

SpecReload == InitReload /\ [][NextReload]_vars

(***************************************************************************)
(* sanitizeRecord taken alone, applied to a record and then to its own     *)
(* result. The record is given as the list of entries that the loop goes   *)
(* through; Object.entries of a JavaScript object yields no key twice, and  *)
(* lists with a repeated key are included for the hasOwnProperty test of    *)
(* the loop.                                                                *)
(***************************************************************************)
MaxFields == 2

FieldNames == { "CODE", "PRIX" }

FieldValues == { NaN, Num("0"), Num("7"), Str("NaN"), Str(""), Null }

FieldEntries == { Entry(k, v) : k \in FieldNames, v \in FieldValues }

RawRecords == UNION { [1..n -> FieldEntries] : n \in 0..MaxFields }

InitSanitize ==
  /\ pc = "sanitize"
  /\ outcome = "running"
  /\ exitCode = -1
  /\ connection = "none"
  /\ fi = 1
  /\ ti = 1
  /\ models = << >>
  /\ dest = [p \in Pairs |-> OldContent(p)]
  /\ records = << >>
  /\ ri = 1
  /\ recordCount = 0
  /\ insertedCount = 0
  /\ errorLog = << >>
  /\ ops = << >>
  /\ report = [p \in Pairs |-> Pending]
  /\ events = 0
  /\ bar = IdleBar
  /\ shown = << >>
  /\ tty = TRUE
  /\ \E raw \in RawRecords : san = [NoSan EXCEPT !.raw = raw]
  /\ pass = 1
  /\ firstDest = << >>
  /\ batchSize = 0

\* sanitizeRecord(record), with the loop of the record-by-record loader and
\* with Object.fromEntries of the chunked loader
Sanitize ==
  /\ pc = "sanitize"
  /\ san' = [san EXCEPT !.once = sanitizeRecord(san.raw),
                        !.entries = sanitizeRecordEntries(san.raw)]
  /\ pc' = "sanitized"
  /\ UNCHANGED << outcome, exitCode, connection, fi, ti, models, dest, records,
                  ri, recordCount, insertedCount, errorLog, ops, report,
                  events, bar, shown, tty, pass, firstDest, batchSize >>

\* sanitizeRecord(sanitizeRecord(record))
SanitizeAgain ==
  /\ pc = "sanitized"
  /\ san' = [san EXCEPT !.twice = sanitizeRecord(san.once)]
  /\ pc' = "resanitized"
  /\ UNCHANGED << outcome, exitCode, connection, fi, ti, models, dest, records,
                  ri, recordCount, insertedCount, errorLog, ops, report,
                  events, bar, shown, tty, pass, firstDest, batchSize >>

NextSanitize ==
  \/ Sanitize
  \/ SanitizeAgain

SpecSanitize == InitSanitize /\ [][NextSanitize]_vars

TypeOK ==
  /\ pc \in { "start", "connect", "folder", "loadModel", "pair", "open",
              "delete", "read", "insert", "catch", "exited" }
  /\ outcome \in { "running", "noUri", "connectFailed", "critical", "completed" }
  /\ exitCode \in { -1, 0, 1 }
  /\ connection \in { "none", "connected", "failed" }
  /\ events \in 0..MaxEvents
  /\ (pc = "exited") = (outcome # "running")

(***************************************************************************)
(* Properties.                                                             *)
(***************************************************************************)
Last(s) == s[Len(s)]

\* the calls a step has just issued
NewOps == SubSeq(ops', Len(ops) + 1, Len(ops'))

\* the step issues the call op (first, when it issues two)
Issues(kind, result) ==
  /\ Len(ops') > Len(ops)
  /\ ops'[Len(ops) + 1][1] = kind
  /\ ops'[Len(ops) + 1][5] = result

\* the sanitized records whose create succeeded for p in this run, in order
Written(p) ==
  LET Is(op) == op[1] = "insert" /\ op[2] = p[1] /\ op[3] = p[2] /\ op[5] = "ok"
      done == SelectSeq(ops, Is)
  IN  [i \in 1..Len(done) |-> sanitizeRecord(archiveRecords[done[i][4]])]

\* the positions of the run inside processFile
InPair == pc \in { "pair", "open", "delete", "read", "insert" }

\* the step has a write to error.log fail
LogWriteFails ==
  \E i \in 1..Len(NewOps) : NewOps[i][1] = "log" /\ NewOps[i][5] = "throw"

\* C1: once the connection is established no failure inside a (folder, model
\* type) ends the run early: when the open of the archive, the delete, the read
\* or a create fails while a pair is processed, the run does not leave the loops
\* for the catch that ends it, so that it goes on to the remaining pairs and
\* ends "completed".  (The failure of a write to error.log, which the claim
\* lists too, is the subject of C6 and is left out here.)
C1_NoPairFailureAborts ==
  [][ (InPair /\ ~LogWriteFails) => pc' # "catch" ]_vars

\* C2: within one load a failed create never stops the load: every turn of the
\* loop submits the next record of the archive, once, and moves on to the record
\* after it, and after the last record the load finishes normally.
C2_InsertFailureNeverStopsLoad ==
  [][ pc = "insert" =>
        IF ri <= Len(records)
        THEN /\ pc' = "insert"
             /\ ri' = ri + 1
             /\ Len(NewOps) >= 1
             /\ NewOps[1][1] = "insert" /\ NewOps[1][4] = ri
        ELSE pc' = "pair" /\ report'[pair].st = "loaded" ]_vars

\* C3: for every pair whose load completed, the collection holds exactly the
\* sanitized records whose create succeeded in this run, in archive order:
\* nothing older survives and nothing else is present.
C3_DestinationHoldsWrittenRecords ==
  \A p \in Pairs : report[p].st = "loaded" => dest[p] = Written(p)

\* a load completed on a collection that held documents before the run, with one
\* record inserted and another rejected
C3_Witness ==
  \E p \in Pairs :
    /\ report[p].st = "loaded"
    /\ OldContent(p) # << >>
    /\ report[p].inserted >= 1
    /\ report[p].inserted < report[p].source

\* C4: when the archive of a pair does not exist the load returns having left
\* every collection as it was, and the run goes on with the next model type of
\* the same folder.
C4_MissingArchiveSkipsOnlyThatPair ==
  [][ Issues("exists", "no") =>
        /\ dest' = dest
        /\ pc' = "pair"
        /\ fi' = fi
        /\ ti' = ti + 1 ]_vars

\* the calls that read an archive or write a collection
DataKinds == { "resolve", "exists", "open", "delete", "read", "insert" }

\* C5: nothing is read from an archive or written to a collection before the
\* connection is established; a missing connection string exits non-zero before
\* any connection attempt, and a failed connection exits non-zero with no pair
\* resolved, opened, deleted from or inserted into.
C5_NoDataMovementBeforeConnection ==
  /\ ops # << >> => connection = "connected"
  /\ outcome = "noUri" =>
       exitCode >= 1 /\ connection = "none" /\ ops = << >>
  /\ connection = "failed" =>
       /\ outcome = "connectFailed"
       /\ exitCode >= 1
       /\ ops = << >>
       /\ \A p \in Pairs : dest[p] = OldContent(p) /\ report[p] = Pending

\* the connection attempt failed and the process has exited
C5_Witness == connection = "failed" /\ pc = "exited" /\ outcome = "connectFailed"

\* C6: logError never raises: a failed write to error.log never sends the run
\* to the catch of importDbfsData; the caller continues as after a write that
\* succeeded.
C6_LogErrorNeverRaises ==
  ~ ( /\ pc = "catch"
      /\ ops # << >>
      /\ Last(ops)[1] = "log"
      /\ Last(ops)[5] = "throw" )

\* C7: when the directory of a folder is absent the folder is skipped: no model
\* is resolved and no archive or collection of the folder is touched, and the
\* run goes on with the next folder in the state it would have without this one.
C7_AbsentFolderSkipsOnlySite ==
  [][ Issues("existsFolder", "no") =>
        /\ pc' = "folder"
        /\ fi' = fi + 1
        /\ dest' = dest
        /\ \A p \in Pairs : p[1] # folder => report'[p] = report[p]
        /\ \A i \in 1..Len(NewOps) : NewOps[i][1] \notin DataKinds ]_vars

\* C8: when the model of a pair cannot be loaded, loadModel returns null
\* instead of failing: no collection is modified and the run goes on with the
\* other model types of the folder.
C8_UnresolvedBindingIsUnavailable ==
  [][ Issues("resolve", "throw") =>
        /\ models' = Append(models, FALSE)
        /\ pc' \in { "loadModel", "pair" }
        /\ fi' = fi
        /\ dest' = dest ]_vars

Skipped(p) == report[p].st \in { "noFolder", "noModel", "noFile" }

\* C9: the process exits with code 0 when the run completes, also when folders
\* or pairs were skipped, and with a non-zero code when the connection string is
\* missing or the connection fails.
C9_ExitCodes ==
  /\ outcome = "completed" => exitCode = 0
  /\ outcome \in { "noUri", "connectFailed" } => exitCode >= 1
  /\ (pc = "exited") = (exitCode # -1)

\* a run that skipped a pair and loaded another has completed
C9_Witness ==
  /\ outcome = "completed"
  /\ exitCode = 0
  /\ \E p \in Pairs : Skipped(p)
  /\ \E p \in Pairs : report[p].st = "loaded"

\* the order of the record types stated for the run:
\* article, class-number, supplier, customer, invoice, invoice-line, third-party
StatedTypeOrder ==
  << "article", "classnum", "fournisseur", "client", "facture",
     "factureDetail", "tier" >>

\* the position of a call in the order folder by folder, type by type
FolderRanks == [f \in Range(allFolders) |-> Index(allFolders, f)]

TypeRanks == [t \in Range(StatedTypeOrder) |-> Index(StatedTypeOrder, t)]

FolderRank(op) == FolderRanks[op[2]]

TypeRank(op) == TypeRanks[op[3]]

Before(a, b) ==
  \/ FolderRank(a) < FolderRank(b)
  \/ FolderRank(a) = FolderRank(b) /\ TypeRank(a) <= TypeRank(b)

LoadKinds == { "exists", "open", "delete", "read", "insert" }

OfKinds(kinds) ==
  LET Is(op) == op[1] \in kinds IN SelectSeq(ops, Is)

\* every call of the sequence is at or after the one issued before it
InOrder(s) == \A i \in 1..(Len(s) - 1) : Before(s[i], s[i + 1])

InFolderOrder(s) ==
  \A i \in 1..(Len(s) - 1) : FolderRank(s[i]) <= FolderRank(s[i + 1])

\* C10: folders are treated in list order and, within a folder, the model types
\* in the stated order; the calls of one pair are all issued before any call of
\* the next pair, so no two loads are ever interleaved.
C10_FixedOrder ==
  /\ InOrder(OfKinds(LoadKinds))
  /\ InOrder(OfKinds({ "resolve" }))
  /\ InFolderOrder(OfKinds(DataKinds \cup { "existsFolder" }))

\* every modelled pair has been loaded, two of them with documents inserted,
\* in a run that completed
C10_Witness ==
  /\ outcome = "completed"
  /\ \A p \in Pairs : report[p].st = "loaded"
  /\ \E p, q \in Pairs :
       p[1] # q[1] /\ report[p].inserted >= 1 /\ report[q].inserted >= 1


\* C11. A failed insert is not counted, appends exactly one line to the error
\* log that names the site (folder), the record type and the failure, and the
\* load goes on with the next record. The line, a triple of the message's
\* label, the folder it names and the record type it names, must therefore
\* carry the folder of the pair being loaded.
C11_FailedInsertLoggedWithSite ==
  [][ Issues("insert", "throw") =>
        /\ insertedCount' = insertedCount
        /\ errorLog' = Append(errorLog, Line("insertion", folder, fileName))
        /\ pc' = "insert"
        /\ ri' = ri + 1 ]_vars


\* s is the beginning of t
IsPrefix(s, t) == Len(s) <= Len(t) /\ SubSeq(t, 1, Len(s)) = s

\* the step finds that a folder, a model or an archive cannot be used
IssuesSkip ==
  \/ Issues("existsFolder", "no")
  \/ Issues("exists", "no")
  \/ Issues("resolve", "throw")
  \/ Issues("resolve", "undefined")

\* C12. Every skip of a folder or of a pair (folder absent, archive absent,
\* model that cannot be used) appends one warning line to the error log and
\* the run goes on; and the error log only grows: in every step its former
\* content is the beginning of its new content. Steps in which the write to
\* the log itself fails are left to C6.
C12_EverySkipLogsOneWarning ==
  [][ /\ IsPrefix(errorLog, errorLog')
      /\ (IssuesSkip /\ ~LogWriteFails) =>
            /\ Len(errorLog') = Len(errorLog) + 1
            /\ pc' # "catch" ]_vars


\* every create of this run for p succeeded
AllAccepted(p) ==
  \A i \in 1..Len(ops) :
    (ops[i][1] = "insert" /\ ops[i][2] = p[1] /\ ops[i][3] = p[2])
      => ops[i][5] = "ok"

\* C13. A completed load of an archive of N records reports an inserted count
\* between 0 and N, and exactly N when the collection accepted every record.
C13_InsertedCountWithinSource ==
  \A p \in Pairs :
    report[p].st = "loaded" =>
      /\ report[p].source = ArchiveLength(p)
      /\ report[p].inserted \in 0..report[p].source
      /\ AllAccepted(p) => report[p].inserted = report[p].source

\* two archives have been loaded, one with every record accepted and one with
\* a rejected record
C13_Witness ==
  \E p, q \in Pairs :
    /\ report[p].st = "loaded" /\ AllAccepted(p) /\ report[p].inserted >= 2
    /\ report[q].st = "loaded" /\ ~AllAccepted(q)
    /\ report[q].inserted < report[q].source


\* how many times the document is in the collection
Count(docs, doc) == Cardinality({ i \in 1..Len(docs) : docs[i] = doc })

\* the two collections hold the same documents, each as many times
SameDocuments(a, b) ==
  /\ Len(a) = Len(b)
  /\ \A i \in 1..Len(a) : Count(a, a[i]) = Count(b, a[i])

\* the record-by-record loader when every create succeeds
RECURSIVE createAll(_, _, _, _)
createAll(d, p, recs, i) ==
  IF i > Len(recs) THEN d
  ELSE createAll(create(d, p, sanitizeRecord(recs[i])), p, recs, i + 1)

\* the chunks that the chunked loader has written, as the index of their
\* first record
ChunkStarts ==
  { ops[k][4] : k \in { j \in 1..Len(ops) : ops[j][1] = "insertMany" } }

\* the collection refused no document of this load
NoChunkRefused ==
  \A k \in 1..Len(ops) : ops[k][1] = "insertMany" => ops[k][5] = "ok"

\* the records of the archive that the collection has stored in this load
StoredRecords ==
  { ops[k][4] : k \in { j \in 1..Len(ops) : ops[j][1] = "stored" } }

\* C14. Loading the N records of an archive in chunks of batchSize leaves the
\* collection with the documents that one insertMany of all N records leaves
\* when the collection accepts the same records, whatever N and
\* batchSize >= 1, and, when it accepts them all, with the documents that the
\* record-by-record loader leaves; every record is in exactly one chunk.
C14_ChunksLoadWhatOneLoadDoes ==
  report[loadedPair].st = "loaded" =>
    LET empty == deleteMany(dest, loadedPair)
        whole == [k \in 1..Len(records) |-> sanitizeRecordEntries(records[k])]
    IN /\ SameDocuments(dest[loadedPair],
                        insertMany(empty, loadedPair, whole,
                                   StoredRecords)[loadedPair])
       /\ NoChunkRefused =>
            SameDocuments(dest[loadedPair],
                          createAll(empty, loadedPair, records, 1)[loadedPair])
       /\ \A i \in 1..Len(records) :
            Cardinality({ b \in ChunkStarts :
                            b <= i /\ i < b + batchSize }) = 1

\* three records have been loaded in chunks of two: a full chunk and a
\* shorter last one
C14_Witness ==
  /\ report[loadedPair].st = "loaded"
  /\ NoChunkRefused
  /\ Len(records) = 3
  /\ batchSize = 2
  /\ Len(dest[loadedPair]) = 3

\* C19. After a completed load the inserted count reported for the pair is
\* the number of records of this load that are in the collection, also when
\* a chunk failed.
C19_InsertedCountIsNumberPresent ==
  report[loadedPair].st = "loaded" =>
    report[loadedPair].inserted = Len(dest[loadedPair])


\* the second load of the pair has ended
Reloaded == pass = 2 /\ pc = "pair" /\ ti >= 2 /\ models[ti - 1]

\* C15. Loading a pair twice in a row from the same archive, the collection
\* accepting every record both times, leaves it with the contents that the
\* first load left, whatever it held before the first load.
C15_SecondLoadChangesNothing ==
  (Reloaded /\ AllAccepted(loaded)) => dest = firstDest

\* an archive of two records has been loaded twice into a collection
C15_Witness ==
  /\ Reloaded
  /\ AllAccepted(loaded)
  /\ report[loaded].inserted >= 2
  /\ Len(firstDest[loaded]) >= 2


\* the place of the first entry of the record that has this key
First(record, key) ==
  CHOOSE i \in 1..Len(record) :
    /\ record[i].key = key
    /\ \A j \in 1..(i - 1) : record[j].key # key

\* no key is twice in the record
NoKeyTwice(record) ==
  \A i, j \in 1..Len(record) : record[i].key = record[j].key => i = j

\* C16. The record that sanitizeRecord returns has the field names of its
\* input, each once, in the order in which the input first has them; a field
\* whose value (at its first occurrence) is the number NaN holds 0, every
\* other field holds that value unchanged, null and empty strings included;
\* so that no field of the result is NaN. For a record without a repeated
\* name the sanitizer of the chunked loader returns the same record.
C16_SanitizerOutput ==
  pc \in { "sanitized", "resanitized" } =>
    /\ Keys(san.once) = Keys(san.raw)
    /\ NoKeyTwice(san.once)
    /\ \A j, k \in 1..Len(san.once) :
         j < k => First(san.raw, san.once[j].key) < First(san.raw, san.once[k].key)
    /\ \A j \in 1..Len(san.once) :
         LET value == san.raw[First(san.raw, san.once[j].key)].value IN
         /\ value = NaN => san.once[j].value = Num("0")
         /\ value # NaN => san.once[j].value = value
         /\ san.once[j].value # NaN
    /\ NoKeyTwice(san.raw) =>
         /\ Len(san.once) = Len(san.raw)
         /\ \A i \in 1..Len(san.raw) : san.once[i].key = san.raw[i].key
         /\ san.entries = san.once

\* a record with a NaN number and a null has been sanitized
C16_Witness ==
  /\ pc = "sanitized"
  /\ NoKeyTwice(san.raw)
  /\ \E i, j \in 1..Len(san.raw) :
       /\ san.raw[i].value = NaN /\ san.once[i].value = Num("0")
       /\ san.raw[j].value = Null /\ san.once[j].value = Null

\* C17. sanitizeRecord is idempotent: sanitizing its result gives that result
\* again.
C17_SanitizerIdempotent ==
  pc = "resanitized" => san.twice = san.once

\* a record that the sanitizer changes has been sanitized twice
C17_Witness ==
  /\ pc = "resanitized"
  /\ san.once # san.raw
  /\ san.twice = san.once
  /\ \E i \in 1..Len(san.raw) : san.raw[i].value = NaN


\* the label of the line that logError is given right after the call op
TagAfter(op) ==
  CASE op[1] = "existsFolder" -> "dossier"
    [] op[1] = "resolve" -> "modele"
    [] op[1] = "exists" -> "fichier"
    [] op[1] = "insert" -> "insertion"
    [] OTHER -> "critique"

\* the lines that the writes to error.log among the first k calls have added
RECURSIVE LogOf(_)
LogOf(k) ==
  IF k <= 1 THEN << >>
  ELSE LogOf(k - 1) \o
       (IF ops[k][1] = "log" /\ ops[k][5] = "ok"
        THEN << Line(TagAfter(ops[k - 1]), ops[k][2], ops[k][3]) >>
        ELSE << >>)

\* the collection of p has been emptied in this run
Emptied(p) ==
  \E k \in 1..Len(ops) :
    ops[k][1] = "delete" /\ ops[k][2] = p[1] /\ ops[k][3] = p[2] /\ ops[k][5] = "ok"

\* C18. The progress bar only observes the load: when a run has ended, its
\* collections, the inserted counts it has reported and its error log are
\* what the answers of the file system and of the database to its calls
\* (ops) determine, whether the bar is drawn or not; so that two runs with
\* the same archives and the same answers, one with the bar drawn and one
\* without, end with the same collections, counts and log.
C18_ProgressOnlyObserves ==
  pc = "exited" =>
    /\ \A p \in Pairs :
         /\ dest[p] = IF Emptied(p) THEN Written(p) ELSE OldContent(p)
         /\ report[p].st = "loaded" => report[p].inserted = Len(Written(p))
    /\ errorLog = LogOf(Len(ops))

\* a run without the bar drawn has ended after loading records and writing
\* to the error log
C18_Witness ==
  /\ pc = "exited"
  /\ ~tty
  /\ shown = << >>
  /\ errorLog # << >>
  /\ \E p \in Pairs : report[p].st = "loaded" /\ report[p].inserted >= 1


\* the call s[i] of a load comes right after the call that the order of
\* processFile puts before it, for the same (folder, model type), and that
\* call has succeeded
InLoadOrder(s, i) ==
  LET op == s[i]
      SamePair(before) == before[2] = op[2] /\ before[3] = op[3]
  IN  CASE op[1] = "exists" -> TRUE
        [] op[1] = "open" ->
             i > 1 /\ s[i - 1] = Op("exists", op[2], op[3], 0, "yes")
        [] op[1] = "delete" ->
             i > 1 /\ s[i - 1] = Op("open", op[2], op[3], 0, "ok")
        [] op[1] = "read" ->
             i > 1 /\ s[i - 1] = Op("delete", op[2], op[3], 0, "ok")
        [] op[1] = "insert" ->
             /\ i > 1
             /\ SamePair(s[i - 1])
             /\ \/ s[i - 1] = Op("read", op[2], op[3], 0, "ok") /\ op[4] = 1
                \/ s[i - 1][1] = "insert" /\ op[4] = s[i - 1][4] + 1
             /\ Emptied(<< op[2], op[3] >>)

\* C20. Within a load the calls are issued in the order: existence check of
\* the archive, open, delete of all documents, read of the records, inserts.
\* The collection is emptied only after the archive has been found and opened
\* successfully, and no insert of a pair is issued before the delete of that
\* pair has completed.
C20_LoadStepsInOrder ==
  LET s == OfKinds(LoadKinds) IN \A i \in 1..Len(s) : InLoadOrder(s, i)

\* the two records of an archive have been submitted after the delete
C20_Witness ==
  \E k \in 1..Len(ops) :
    /\ ops[k][1] = "insert"
    /\ ops[k][4] = 2
    /\ Emptied(<< ops[k][2], ops[k][3] >>)


\* the pairs whose collection has been emptied by this run and whose load has
\* not ended
HalfLoaded == { p \in Pairs : Emptied(p) /\ report[p].st # "loaded" }

\* at most one pair is half loaded, and it is the one that processFile is
\* loading, or was loading when the run was cut short; the collection of a
\* pair whose delete has not been done holds what it held before the run
OnlyCurrentPairHalfLoaded ==
  /\ Cardinality(HalfLoaded) <= 1
  /\ \A p \in HalfLoaded :
       /\ fi <= Len(folders)
       /\ ti <= Len(modelTypes)
       /\ p = pair
       /\ pc \in { "read", "insert", "catch", "exited" }
  /\ \A p \in Pairs : ~Emptied(p) => dest[p] = OldContent(p)

\* C21. At every point of a run, also one that ends early, at most one pair
\* has its collection emptied and not fully reinserted, and it is the pair
\* being loaded; the collection of every pair not yet started holds exactly
\* what it held before the run, and no step changes the collection of a pair
\* whose load has ended.
C21_OnlyCurrentPairHalfLoaded ==
  [][ /\ OnlyCurrentPairHalfLoaded'
      /\ \A p \in Pairs : report[p].st = "loaded" => dest'[p] = dest[p] ]_vars

\* a run has been cut short while a pair was half loaded, after the load of
\* another pair had ended and before the load of a third one into a collection
\* that is not empty
C21_Witness ==
  /\ pc = "exited"
  /\ outcome = "critical"
  /\ HalfLoaded # { }
  /\ \E p, q \in Pairs :
       /\ report[p].st = "loaded" /\ report[p].inserted >= 1
       /\ ~Emptied(q) /\ dest[q] # << >>


\* every folder of the list has been looked for: found and gone through, or
\* found absent and skipped
AllFoldersSeen ==
  \A n \in 1..Len(folders) :
    \E k \in 1..Len(ops) : ops[k][1] = "existsFolder" /\ ops[k][2] = folders[n]

\* C22. Every run terminates: the run ends completed or aborted and the
\* process exits; and it ends completed only after every folder of the list
\* has been gone through or skipped.
C22_RunTerminates ==
  /\ <>(pc = "exited" /\ exitCode # -1 /\ outcome # "running")
  /\ [](outcome = "completed" => (pc = "exited" /\ AllFoldersSeen))

\* a run has completed after it skipped a folder and went through another
C22_Witness ==
  /\ pc = "exited"
  /\ outcome = "completed"
  /\ AllFoldersSeen
  /\ \E k \in 1..Len(ops) : ops[k][1] = "existsFolder" /\ ops[k][5] = "no"
  /\ \E k \in 1..Len(ops) : ops[k][1] = "existsFolder" /\ ops[k][5] = "yes"


\* C23. During a load the value given to the progress bar never decreases and
\* never exceeds the total that the bar was started with, and the last value
\* given before stop is the final inserted count (so also when at least one
\* insert succeeded).
C23_ProgressFollowsInsertedCount ==
  [][ /\ bar'.value <= bar'.total
      /\ (bar.active /\ bar'.active) => bar'.value >= bar.value
      /\ (bar.active /\ ~bar'.active) =>
            /\ report'[pair].st = "loaded"
            /\ report'[pair].inserted = bar.value
            /\ bar'.value = bar.value ]_vars

\* the bar has been stopped at the end of a load in which a record was
\* refused and another inserted
C23_Witness ==
  /\ ~bar.active
  /\ bar.value >= 1
  /\ bar.value < bar.total
  /\ \E p \in Pairs :
       /\ report[p].st = "loaded"
       /\ report[p].inserted = bar.value
       /\ report[p].source = bar.total

====
